---- MODULE Spec2Model ----
(***************************************************************************)
(* A model of pun_generator.py: the phoneme-weighted edit distance, the    *)
(* prosody filters, the idiom substitution search (find_idiom_puns) and    *)
(* the merge / dedup / rank session driven by main().                      *)
(*                                                                         *)
(* Representation.                                                         *)
(*  - A Python str is a sequence of characters; a character is a one-      *)
(*    character TLA+ string.  Characters outside ASCII are written as      *)
(*    their X-SAMPA code between angle brackets:                           *)
(*        <'> U+02C8 primary stress     <,> U+02CC secondary stress        *)
(*        <ae> U+00E6   <A> U+0251   <6> U+0250   <@> U+0259   <E> U+025B  *)
(*        <3> U+025C    <I> U+026A   <1> U+0268   <O> U+0254   <9> U+0153  *)
(*        <2> U+00F8    <U> U+028A   <}> U+0289   <M> U+026F   <V> U+028C  *)
(*        <Y> U+028F    <@r> U+025A  <3r> U+025D  <g> U+0261   <S> U+0283  *)
(*        <T> U+03B8    <D> U+00F0   <Z> U+0292   <N> U+014B   <r> U+0279  *)
(*  - A phoneme is a str, a pronunciation a sequence of phonemes.          *)
(*  - Distances are floats that are multiples of 0.5 in the program; the   *)
(*    model stores them in half-units (0.5 is 1, 1.0 is 2, 1000.0 is 2000).*)
(***************************************************************************)
EXTENDS Integers, Sequences, FiniteSets, TLC

VARIABLES
    pc,               \* position of the run
    pron1,            \* phoneme_edit_distance: first argument
    pron2,            \* phoneme_edit_distance: second argument
    dist,             \* phoneme_edit_distance: returned value (half-units)
    args_word,        \* main: args.word
    args_max_distance,\* main: args.max_distance (half-units)
    idioms_file,      \* the lines of the idioms file
    concept_entries,  \* concept_dict.get(args.word.lower(), [])
    word_to_count,    \* word_frequency.word_to_count
    pron_cache,       \* _pron_cache
    backend_calls,    \* how often backend.phonemize ran, per word
    word_pron,        \* main: word_pron
    idioms,           \* main: idioms
    results,          \* main: results
    seen_puns,        \* main: seen_puns
    entry_idx,        \* main: position of the loop over entries (1-based)
    returned,         \* the value the last find_idiom_puns call returned
    raised            \* whether the last call ended with an exception

dist_vars == <<pron1, pron2, dist>>
input_vars == <<args_word, args_max_distance, idioms_file, concept_entries,
                word_to_count>>
main_vars == <<pron_cache, backend_calls, word_pron, idioms, results,
               seen_puns, entry_idx, returned, raised>>
vars == <<pc, dist_vars, input_vars, main_vars>>

(***************************************************************************)
(* Bounds of the model                                                     *)
(***************************************************************************)
MaxLen == 3      \* longest pronunciation given to phoneme_edit_distance
MaxIdioms == 2   \* most lines of the idioms file
MaxEntries == 2  \* most related entries the relation provider lists

(***************************************************************************)
(* Characters and strings                                                  *)
(***************************************************************************)
\* str.lstrip(chars): drop the leading characters that are in chars
RECURSIVE lstrip(_, _)
lstrip(s, chars) ==
    IF s # <<>> /\ Head(s) \in chars THEN lstrip(Tail(s), chars) ELSE s

\* the stress markers stripped by lstrip at lines 225, 240, 267, 268
STRESS_MARKERS == {"<'>", "<,>"}

IPA_VOWELS ==
    {"a", "<A>", "<ae>", "<6>", "e", "<@>", "<E>", "<3>", "i", "<I>", "<1>",
     "o", "<O>", "<9>", "<2>", "u", "<U>", "<}>", "<M>", "<V>", "y", "<Y>"}

\* any(c in IPA_VOWELS for c in s)
has_vowel(s) == \E k \in 1..Len(s) : s[k] \in IPA_VOWELS

phone_to_peers ==
    \* stops
    (<<"p">> :> {<<"t">>, <<"k">>}) @@
    (<<"t">> :> {<<"p">>, <<"k">>}) @@
    (<<"k">> :> {<<"p">>, <<"t">>}) @@
    (<<"b">> :> {<<"d">>, <<"<g>">>}) @@
    (<<"d">> :> {<<"b">>, <<"<g>">>}) @@
    (<<"<g>">> :> {<<"b">>, <<"d">>}) @@
    \* affricates
    (<<"t", "<S>">> :> {}) @@
    (<<"d", "<Z>">> :> {}) @@
    \* fricatives
    (<<"f">> :> {<<"<T>">>, <<"s">>, <<"<S>">>, <<"h">>}) @@
    (<<"<T>">> :> {<<"f">>, <<"s">>, <<"<S>">>, <<"h">>}) @@
    (<<"s">> :> {<<"f">>, <<"<T>">>, <<"<S>">>, <<"h">>}) @@
    (<<"<S>">> :> {<<"f">>, <<"<T>">>, <<"s">>, <<"h">>}) @@
    (<<"h">> :> {<<"f">>, <<"<T>">>, <<"s">>, <<"<S>">>}) @@
    (<<"v">> :> {<<"<D>">>, <<"z">>, <<"<Z>">>}) @@
    (<<"<D>">> :> {<<"v">>, <<"z">>, <<"<Z>">>}) @@
    (<<"z">> :> {<<"v">>, <<"<D>">>, <<"<Z>">>}) @@
    (<<"<Z>">> :> {<<"v">>, <<"<D>">>, <<"z">>}) @@
    \* sonorants
    (<<"m">> :> {<<"n">>, <<"<N>">>}) @@
    (<<"n">> :> {<<"m">>, <<"<N>">>}) @@
    (<<"<N>">> :> {<<"m">>, <<"n">>}) @@
    (<<"l">> :> {<<"<r>">>}) @@
    (<<"<r>">> :> {<<"l">>}) @@
    (<<"w">> :> {<<"j">>}) @@
    (<<"j">> :> {<<"w">>}) @@
    \* vowels, front-ish set
    (<<"i">> :> {<<"<I>">>, <<"e", "<I>">>, <<"<E>">>, <<"<ae>">>}) @@
    (<<"<I>">> :> {<<"i">>, <<"e", "<I>">>, <<"<E>">>, <<"<ae>">>}) @@
    (<<"e", "<I>">> :> {<<"i">>, <<"<I>">>, <<"<E>">>, <<"<ae>">>}) @@
    (<<"<E>">> :> {<<"i">>, <<"<I>">>, <<"e", "<I>">>, <<"<ae>">>}) @@
    (<<"<ae>">> :> {<<"i">>, <<"<I>">>, <<"e", "<I>">>, <<"<E>">>}) @@
    \* central-ish set
    (<<"<V>">> :> {<<"<@>">>, <<"<@r>">>}) @@
    (<<"<@>">> :> {<<"<V>">>, <<"<@r>">>}) @@
    (<<"<@r>">> :> {<<"<V>">>, <<"<@>">>}) @@
    \* back-ish set
    (<<"u">> :> {<<"<U>">>, <<"o", "<U>">>, <<"<O>">>, <<"<A>">>}) @@
    (<<"<U>">> :> {<<"u">>, <<"o", "<U>">>, <<"<O>">>, <<"<A>">>}) @@
    (<<"o", "<U>">> :> {<<"u">>, <<"<U>">>, <<"<O>">>, <<"<A>">>}) @@
    (<<"<O>">> :> {<<"u">>, <<"<U>">>, <<"o", "<U>">>, <<"<A>">>}) @@
    (<<"<A>">> :> {<<"u">>, <<"<U>">>, <<"o", "<U>">>, <<"<O>">>}) @@
    \* rhotic vowel
    (<<"<3r>">> :> {}) @@
    \* diphthongs
    (<<"a", "<I>">> :> {<<"a", "<U>">>, <<"<O>", "<I>">>}) @@
    (<<"a", "<U>">> :> {<<"a", "<I>">>, <<"<O>", "<I>">>}) @@
    (<<"<O>", "<I>">> :> {<<"a", "<I>">>, <<"a", "<U>">>})

\* ph.lstrip of the two stress markers: the phoneme without its stress prefix
strip_stress(ph) == lstrip(ph, STRESS_MARKERS)

\* faulty variant of peers_of: t is not listed as a peer of p's other peers
peers_of_one_way(p1) ==
    IF p1 = <<"t">> THEN {<<"k">>}
    ELSE IF p1 \in DOMAIN phone_to_peers THEN phone_to_peers[p1] ELSE {}

\* phone_to_peers.get(p1, ())
peers_of(p1) == IF p1 \in DOMAIN phone_to_peers THEN phone_to_peers[p1] ELSE {}

\* faulty variant of are_peer_phonemes: only identical symbols are peers
are_peer_phonemes_same_only(p1, p2) == p1 = p2

are_peer_phonemes(p1, p2) == p1 = p2 \/ p2 \in peers_of(p1)

is_stressed_vowel(phoneme) ==
    IF ~(phoneme # <<>> /\ Head(phoneme) = "<'>") THEN FALSE
    ELSE has_vowel(phoneme)

(***************************************************************************)
(* phoneme_edit_distance                                                   *)
(***************************************************************************)
INF == 2000     \* INF = 1000.0, in half-units

\* faulty variant of sub_cost: only the first phoneme is tested for primary stress
sub_cost_first_only(ph1, ph2) ==
    IF is_stressed_vowel(ph1) THEN INF
    ELSE IF are_peer_phonemes(strip_stress(ph1), strip_stress(ph2)) THEN 1
    ELSE 2

\* faulty variant of sub_cost: no penalty for a primary-stressed vowel
sub_cost_no_stress_rule(ph1, ph2) ==
    IF are_peer_phonemes(strip_stress(ph1), strip_stress(ph2)) THEN 1 ELSE 2

\* faulty variant of sub_cost: the peers are looked up before the stress
sub_cost_peers_before_stress(ph1, ph2) ==
    IF are_peer_phonemes(strip_stress(ph1), strip_stress(ph2)) THEN 1
    ELSE IF is_stressed_vowel(ph1) \/ is_stressed_vowel(ph2) THEN INF
    ELSE 2

\* the substitution cost of lines 273-280 (the bases differ)
sub_cost(ph1, ph2) ==
    LET p1 == strip_stress(ph1)
        p2 == strip_stress(ph2)
    IN  IF is_stressed_vowel(ph1) \/ is_stressed_vowel(ph2) THEN INF
        ELSE IF are_peer_phonemes(p1, p2) THEN 1
        ELSE 2

\* dp[i][j] from dp[i-1][j] (up), dp[i][j-1] (left) and dp[i-1][j-1] (diag)
Min3(a, b, c) == IF a <= b /\ a <= c THEN a ELSE IF b <= c THEN b ELSE c

\* faulty variant of dp_cell: the phonemes are compared with their stress markers
dp_cell_unstripped(ph1, ph2, up, left, diag) ==
    IF ph1 = ph2 THEN diag
    ELSE Min3(up + 2, left + 2, diag + sub_cost(ph1, ph2))

\* faulty variant of dp_cell: the diagonal cell alone is also taken for peers
dp_cell_diagonal_on_peers(ph1, ph2, up, left, diag) ==
    IF strip_stress(ph1) = strip_stress(ph2) THEN diag
    ELSE IF sub_cost(ph1, ph2) = 1 THEN diag + 1
    ELSE Min3(up + 2, left + 2, diag + sub_cost(ph1, ph2))

dp_cell(ph1, ph2, up, left, diag) ==
    IF strip_stress(ph1) = strip_stress(ph2)
    THEN diag
    ELSE Min3(up + 2, left + 2, diag + sub_cost(ph1, ph2))

\* Row i of the table, filled left to right for j = 1..n.  A row is the
\* sequence <<dp[i][0], ..., dp[i][n]>>; prev is row i-1, cur the cells of
\* row i filled so far.
RECURSIVE dp_row(_, _, _, _, _)
dp_row(p1, p2, i, prev, cur) ==
    LET j == Len(cur)
    IN  IF j > Len(p2) THEN cur
        ELSE dp_row(p1, p2, i, prev,
                    Append(cur, dp_cell(p1[i], p2[j], prev[j + 1], cur[j], prev[j])))

\* faulty variant of dp_rows: column 0 keeps the 0.0 the table was allocated with
RECURSIVE dp_rows_zero_column(_, _, _, _)
dp_rows_zero_column(p1, p2, i, prev) ==
    IF i > Len(p1) THEN prev
    ELSE dp_rows_zero_column(p1, p2, i + 1, dp_row(p1, p2, i, prev, <<0>>))

\* Rows 1..m, each from the one before; row 0 is dp[0][j] = float(j) and
\* column 0 is dp[i][0] = float(i).
RECURSIVE dp_rows(_, _, _, _)
dp_rows(p1, p2, i, prev) ==
    IF i > Len(p1) THEN prev
    ELSE dp_rows(p1, p2, i + 1, dp_row(p1, p2, i, prev, <<2 * i>>))

phoneme_edit_distance(p1, p2) ==
    LET row0 == [j \in 1..(Len(p2) + 1) |-> 2 * (j - 1)]
    IN  dp_rows(p1, p2, 1, row0)[Len(p2) + 1]

(***************************************************************************)
(* Python str operations used by the search                                *)
(***************************************************************************)
\* None, where the program holds an Optional[str]: a str no text equals
None == <<"<None>">>

LOWER_LETTERS ==
    <<"a", "b", "c", "d", "e", "f", "g", "h", "i", "j", "k", "l", "m",
      "n", "o", "p", "q", "r", "s", "t", "u", "v", "w", "x", "y", "z">>
UPPER_LETTERS ==
    <<"A", "B", "C", "D", "E", "F", "G", "H", "I", "J", "K", "L", "M",
      "N", "O", "P", "Q", "R", "S", "T", "U", "V", "W", "X", "Y", "Z">>
WHITESPACE == {" "}

\* str.lower and str.upper on one character, as tables
TO_LOWER ==
    [c \in {UPPER_LETTERS[k] : k \in DOMAIN UPPER_LETTERS} |->
        LOWER_LETTERS[CHOOSE k \in DOMAIN UPPER_LETTERS : UPPER_LETTERS[k] = c]]
TO_UPPER ==
    [c \in {LOWER_LETTERS[k] : k \in DOMAIN LOWER_LETTERS} |->
        UPPER_LETTERS[CHOOSE k \in DOMAIN LOWER_LETTERS : LOWER_LETTERS[k] = c]]

is_lower_char(c) == c \in DOMAIN TO_UPPER
is_upper_char(c) == c \in DOMAIN TO_LOWER
\* c.isalpha()
isalpha(c) == is_lower_char(c) \/ is_upper_char(c)

lower_char(c) == IF is_upper_char(c) THEN TO_LOWER[c] ELSE c
upper_char(c) == IF is_lower_char(c) THEN TO_UPPER[c] ELSE c

\* s.lower(), s.upper()
lower(s) == [k \in DOMAIN s |-> lower_char(s[k])]
upper(s) == [k \in DOMAIN s |-> upper_char(s[k])]

\* s.isupper(): at least one cased character and no lower-case one
isupper(s) ==
    /\ \E k \in DOMAIN s : is_upper_char(s[k])
    /\ \A k \in DOMAIN s : ~is_lower_char(s[k])

\* s.rstrip(), s.strip() of whitespace
RECURSIVE rstrip(_, _)
rstrip(s, chars) ==
    IF s # <<>> /\ s[Len(s)] \in chars THEN rstrip(SubSeq(s, 1, Len(s) - 1), chars)
    ELSE s
strip(s) == rstrip(lstrip(s, WHITESPACE), WHITESPACE)

\* s.split(): the maximal runs of non-whitespace characters, in order.
\* cur is the run being read, out the runs already closed.
RECURSIVE split_from(_, _, _)
split_from(s, cur, out) ==
    LET closed == IF cur = <<>> THEN out ELSE Append(out, cur)
    IN  IF s = <<>> THEN closed
        ELSE IF Head(s) \in WHITESPACE THEN split_from(Tail(s), <<>>, closed)
        ELSE split_from(Tail(s), Append(cur, Head(s)), out)
split(s) == split_from(s, <<>>, <<>>)

\* ' '.join(tokens)
RECURSIVE join(_)
join(tokens) ==
    IF tokens = <<>> THEN <<>>
    ELSE IF Len(tokens) = 1 THEN tokens[1]
    ELSE tokens[1] \o <<" ">> \o join(Tail(tokens))

\* ''.join(c for c in s if c.isalpha())
only_alpha(s) == SelectSeq(s, isalpha)

\* ' ' in s
has_space(s) == \E k \in DOMAIN s : s[k] = " "

\* the elements of a list, as a set
Range(f) == {f[k] : k \in DOMAIN f}

(***************************************************************************)
(* Prosody filter                                                          *)
(***************************************************************************)
MIN_WORD_LENGTH == 3

RECURSIVE count_syllables(_)
count_syllables(pron) ==
    IF pron = <<>> THEN 0
    ELSE (IF has_vowel(strip_stress(Head(pron))) THEN 1 ELSE 0)
         + count_syllables(Tail(pron))

\* the first character of the stripped phoneme that is in IPA_VOWELS, as a
\* str of one character, or None
get_vowel(phoneme) ==
    LET stripped == strip_stress(phoneme)
        hits == {k \in DOMAIN stripped : stripped[k] \in IPA_VOWELS}
    IN  IF hits = {} THEN None
        ELSE <<stripped[CHOOSE k \in hits : \A h \in hits : k <= h]>>

get_stressed_vowel(pron) ==
    LET hits == {k \in DOMAIN pron : is_stressed_vowel(pron[k])}
    IN  IF hits = {} THEN None
        ELSE get_vowel(pron[CHOOSE k \in hits : \A h \in hits : k <= h])

(***************************************************************************)
(* Pronunciation lookup                                                    *)
(***************************************************************************)
\* What backend.phonemize answers for a lower-cased word, already split into
\* phonemes (ipa.split()); a word outside the table gets the empty answer.
\* The backend is not part of the repository: the table is the model's
\* stand-in for it.  Phrases have no entry (comment at lines 321-322).
ESPEAK ==
    (<<"s", "u", "n">> :> << <<"s">>, <<"<'>", "<V>">>, <<"n">> >>) @@
    (<<"s", "o", "n">> :> << <<"s">>, <<"<'>", "<V>">>, <<"n">> >>) @@
    (<<"f", "u", "n">> :> << <<"f">>, <<"<'>", "<V>">>, <<"n">> >>) @@
    (<<"r", "u", "n">> :> << <<"<r>">>, <<"<'>", "<V>">>, <<"n">> >>) @@
    (<<"b", "u", "n">> :> << <<"b">>, <<"<'>", "<V>">>, <<"n">> >>) @@
    (<<"s", "i", "n">> :> << <<"s">>, <<"<'>", "<I>">>, <<"n">> >>) @@
    (<<"f", "u", "n", "d">> :> << <<"f">>, <<"<'>", "<V>">>, <<"n">>, <<"d">> >>) @@
    (<<"t", "h", "e">> :> << <<"<D>">>, <<"<@>">> >>) @@
    (<<"s", "h", "h">> :> << <<"<S>">> >>) @@
    (<<"u", "n">> :> << <<"<'>", "<V>">>, <<"n">> >>) @@
    (<<"h", "o", "w">> :> << <<"h">>, <<"<'>", "a", "<U>">> >>) @@
    (<<"h", "i", "g", "h">> :> << <<"h">>, <<"<'>", "a", "<I>">> >>)

\* the words for which backend.phonemize raises
ESPEAK_RAISES == { <<"p", "u", "n">> }

\* A pronunciation is a non-empty list of phonemes, or None; the model writes
\* None as the empty list, which the program never holds (line 180).
NoPron == <<>>

\* faulty variant of get_pronunciation: an absent pronunciation is not cached
get_pronunciation_no_negative_cache(st, word) ==
    LET word_lower == lower(word)
        called == [st EXCEPT !.calls =
                     IF word_lower \in DOMAIN st.calls
                     THEN [st.calls EXCEPT ![word_lower] = @ + 1]
                     ELSE st.calls @@ (word_lower :> 1)]
        ipa == IF word_lower \in DOMAIN ESPEAK THEN ESPEAK[word_lower] ELSE <<>>
        answer == IF word_lower \in ESPEAK_RAISES THEN NoPron ELSE ipa
    IN  IF word_lower \in DOMAIN st.cache
        THEN [pron |-> st.cache[word_lower], st |-> st, raised |-> FALSE]
        ELSE IF answer = NoPron
        THEN [pron |-> NoPron, st |-> called, raised |-> FALSE]
        ELSE [pron |-> answer,
              st |-> [called EXCEPT !.cache = st.cache @@ (word_lower :> answer)],
              raised |-> FALSE]

\* get_pronunciation(word) on the lookup state st = [cache, calls]; answers
\* the returned pronunciation, the state the call leaves behind and whether
\* the call raises: it never does, "except Exception: pass" (lines 185-186)
\* takes every failure of the backend to the lines that store and return None.
get_pronunciation(st, word) ==
    LET word_lower == lower(word)
        called == [st EXCEPT !.calls =
                     IF word_lower \in DOMAIN st.calls
                     THEN [st.calls EXCEPT ![word_lower] = @ + 1]
                     ELSE st.calls @@ (word_lower :> 1)]
        ipa == IF word_lower \in DOMAIN ESPEAK THEN ESPEAK[word_lower] ELSE <<>>
        answer == IF word_lower \in ESPEAK_RAISES THEN NoPron ELSE ipa
    IN  IF word_lower \in DOMAIN st.cache
        THEN [pron |-> st.cache[word_lower], st |-> st, raised |-> FALSE]
        ELSE [pron |-> answer,
              st |-> [called EXCEPT !.cache = st.cache @@ (word_lower :> answer)],
              raised |-> FALSE]

(***************************************************************************)
(* Ranking                                                                 *)
(***************************************************************************)
\* word_to_count.get(word.lower(), 0)
get_word_frequency(word) ==
    IF lower(word) \in DOMAIN word_to_count THEN word_to_count[lower(word)] ELSE 0

\* faulty variant of pun_rank: the frequency is not negated
pun_rank_rare_first(edit_distance, word_frequency) ==
    <<edit_distance, word_frequency>>

pun_rank(edit_distance, word_frequency) == <<edit_distance, -word_frequency>>

\* next((w for w in punned_idiom.split() if w.isupper()), '').lower()
sub_word_of(punned_idiom) ==
    LET ws == split(punned_idiom)
        hits == {k \in DOMAIN ws : isupper(ws[k])}
    IN  IF hits = {} THEN <<>>
        ELSE lower(ws[CHOOSE k \in hits : \A h \in hits : k <= h])

sort_key(result) ==
    pun_rank(result.distance, get_word_frequency(sub_word_of(result.punned_idiom)))

\* the order of Python tuples of two numbers
key_less(a, b) == a[1] < b[1] \/ (a[1] = b[1] /\ a[2] < b[2])

\* faulty variant of insert_sorted: an element goes in front of the elements with an
\* equal key (the sort is not stable)
RECURSIVE insert_sorted_before_equal(_, _)
insert_sorted_before_equal(sorted, e) ==
    IF sorted = <<>> THEN <<e>>
    ELSE IF ~key_less(Head(sorted)[1], e[1]) THEN <<e>> \o sorted
    ELSE <<Head(sorted)>> \o insert_sorted_before_equal(Tail(sorted), e)

\* list.sort(key=sort_key): the key of every element is computed once, and
\* the sort is stable.  A keyed element is <<key, result>>; insert_sorted puts
\* it behind every element whose key is not greater than its own.
RECURSIVE insert_sorted(_, _)
insert_sorted(sorted, e) ==
    IF sorted = <<>> THEN <<e>>
    ELSE IF key_less(e[1], Head(sorted)[1]) THEN <<e>> \o sorted
    ELSE <<Head(sorted)>> \o insert_sorted(Tail(sorted), e)

RECURSIVE sort_keyed(_)
sort_keyed(keyed) ==
    IF keyed = <<>> THEN <<>>
    ELSE insert_sorted(sort_keyed(SubSeq(keyed, 1, Len(keyed) - 1)),
                       keyed[Len(keyed)])

sort_results(rs) ==
    LET keyed == [k \in DOMAIN rs |-> <<sort_key(rs[k]), rs[k]>>]
        sorted == sort_keyed(keyed)
    IN  [k \in DOMAIN sorted |-> sorted[k][2]]

(***************************************************************************)
(* find_idiom_puns                                                         *)
(***************************************************************************)
STOPWORDS ==
    { <<"a">>, <<"a", "n">>, <<"t", "h", "e">>, <<"i", "n">>, <<"o", "n">>,
      <<"a", "t">>, <<"t", "o">>, <<"o", "f">>, <<"b", "y">>, <<"i", "s">>,
      <<"i", "t">>, <<"b", "e">>, <<"a", "s">>, <<"o", "r">>, <<"i", "f">>,
      <<"s", "o">>, <<"n", "o">>, <<"u", "p">>, <<"w", "e">>, <<"h", "e">>,
      <<"m", "e">>, <<"m", "y">>, <<"d", "o">>, <<"g", "o">>, <<"u", "s">>,
      <<"a", "m">> }

\* faulty variant of in_budget: distance 0 is accepted
in_budget_no_floor(distance, max_distance) == distance <= max_distance

\* line 367: 0 < distance <= max_distance
in_budget(distance, max_distance) == 0 < distance /\ distance <= max_distance

\* faulty variant of keep_result: the result is appended without looking at seen_puns
keep_result_unchecked(acc, r) ==
    [acc EXCEPT !.seen_puns = @ \cup {r.punned_idiom}, !.results = Append(@, r)]

\* lines 373-376: append the result unless its punned idiom was seen.  acc is
\* the state of the scan: [results, seen_puns, st].
keep_result(acc, r) ==
    IF r.punned_idiom \notin acc.seen_puns
    THEN [acc EXCEPT !.seen_puns = @ \cup {r.punned_idiom},
                     !.results = Append(@, r)]
    ELSE acc

\* faulty variant of skip_token: a short word is not skipped
skip_token_any_length(clean_word, word) ==
    \/ clean_word = <<>> \/ clean_word = lower(word)
    \/ clean_word \in STOPWORDS

\* lines 342-351: the token is passed over before any lookup
skip_token(clean_word, word) ==
    \/ clean_word = <<>> \/ clean_word = lower(word)
    \/ clean_word \in STOPWORDS
    \/ Len(clean_word) < MIN_WORD_LENGTH

\* One pass of the inner loop (lines 339-376): token i of the idiom.  q holds
\* what the call computed before the loops: word, word_pron, stressed_vowel,
\* word_syllables, max_distance, source_word, relation.
scan_token(acc, q, idiom, words_in_idiom, i) ==
    LET idiom_word == words_in_idiom[i]
        clean_word == only_alpha(idiom_word)
        got == get_pronunciation(acc.st, clean_word)
        idiom_word_pron == got.pron
        looked == [acc EXCEPT !.st = got.st]
        distance == phoneme_edit_distance(q.word_pron, idiom_word_pron)
        punned_idiom == join([words_in_idiom EXCEPT ![i] = upper(q.word)])
    IN  IF skip_token(clean_word, q.word) THEN acc
        ELSE IF idiom_word_pron = NoPron THEN looked
        ELSE IF count_syllables(idiom_word_pron) # q.word_syllables THEN looked
        ELSE IF get_stressed_vowel(idiom_word_pron) # q.stressed_vowel THEN looked
        ELSE IF in_budget(distance, q.max_distance)
             THEN keep_result(looked,
                              [idiom |-> idiom,
                               punned_idiom |-> punned_idiom,
                               matched_word |-> clean_word,
                               distance |-> distance,
                               source_word |-> q.source_word,
                               relation |-> q.relation,
                               \* not a field of the program's tuple: the word the
                               \* call substituted in, kept to state the claims
                               sub_in |-> q.word])
        ELSE looked

\* the inner loop from token i on
RECURSIVE scan_tokens(_, _, _, _, _)
scan_tokens(acc, q, idiom, words_in_idiom, i) ==
    IF i > Len(words_in_idiom) THEN acc
    ELSE scan_tokens(scan_token(acc, q, idiom, words_in_idiom, i),
                     q, idiom, words_in_idiom, i + 1)

\* the outer loop (line 336) from idiom k on
RECURSIVE scan_idioms(_, _, _, _)
scan_idioms(acc, q, idiom_list, k) ==
    IF k > Len(idiom_list) THEN acc
    ELSE scan_idioms(scan_tokens(acc, q, idiom_list[k], split(idiom_list[k]), 1),
                     q, idiom_list, k + 1)

\* faulty variant of find_idiom_puns: the idioms are scanned although the word
\* has no pronunciation
find_idiom_puns_no_guard(st, word, idiom_list, max_distance, source_word, relation) ==
    LET got == get_pronunciation(st, word)
        q == [word |-> word,
              word_pron |-> got.pron,
              stressed_vowel |-> get_stressed_vowel(got.pron),
              word_syllables |-> count_syllables(got.pron),
              max_distance |-> max_distance,
              source_word |-> source_word,
              relation |-> relation]
        scanned == scan_idioms([results |-> <<>>, seen_puns |-> {}, st |-> got.st],
                               q, idiom_list, 1)
    IN  IF Len(word) < MIN_WORD_LENGTH
        THEN [ret |-> <<>>, st |-> got.st, raised |-> got.raised]
        ELSE [ret |-> sort_results(scanned.results), st |-> scanned.st,
              raised |-> got.raised]

\* find_idiom_puns(word, idioms, max_distance, source_word, relation) on the
\* lookup state st: [ret |-> the returned list, st |-> the state left behind,
\* raised |-> whether the call ends with an exception].  The function has no
\* raise statement and checks none of its arguments.
find_idiom_puns(st, word, idiom_list, max_distance, source_word, relation) ==
    LET got == get_pronunciation(st, word)
        q == [word |-> word,
              word_pron |-> got.pron,
              stressed_vowel |-> get_stressed_vowel(got.pron),
              word_syllables |-> count_syllables(got.pron),
              max_distance |-> max_distance,
              source_word |-> source_word,
              relation |-> relation]
        scanned == scan_idioms([results |-> <<>>, seen_puns |-> {}, st |-> got.st],
                               q, idiom_list, 1)
    IN  IF got.pron = NoPron
        THEN [ret |-> <<>>, st |-> got.st, raised |-> got.raised]
        ELSE IF Len(word) < MIN_WORD_LENGTH
        THEN [ret |-> <<>>, st |-> got.st, raised |-> got.raised]
        ELSE [ret |-> sort_results(scanned.results), st |-> scanned.st,
              raised |-> got.raised]

(***************************************************************************)
(* main                                                                    *)
(***************************************************************************)
SKIP_RELATIONS ==
    { <<"HasContext">>, <<"RelatedTo">>, <<"AtLocation">>, <<"HasA">>,
      <<"HasPrerequisite">>, <<"DerivedFrom">>, <<"EtymologicallyRelatedTo">>,
      <<"IsA">>, <<"DistinctFrom">> }

\* [line.strip().lower() for line in f if line.strip()]
load_idioms(lines) ==
    LET kept == SelectSeq(lines, LAMBDA line : strip(line) # <<>>)
    IN  [k \in DOMAIN kept |-> lower(strip(kept[k]))]

\* the punned idioms of a list of results
punned_of(rs) == {rs[k].punned_idiom : k \in DOMAIN rs}

\* faulty variant of merge_related: every related result is appended
merge_related_unchecked(m, related_results) ==
    [results |-> m.results \o related_results,
     seen_puns |-> m.seen_puns \cup punned_of(related_results)]

\* lines 499-502: append the related results not seen yet.  m is
\* [results, seen_puns].
RECURSIVE merge_related(_, _)
merge_related(m, related_results) ==
    IF related_results = <<>> THEN m
    ELSE LET r == Head(related_results)
         IN  merge_related(
                 IF r.punned_idiom \notin m.seen_puns
                 THEN [results |-> Append(m.results, r),
                       seen_puns |-> m.seen_puns \cup {r.punned_idiom}]
                 ELSE m,
                 Tail(related_results))

(***************************************************************************)
(* Inputs of phoneme_edit_distance                                         *)
(***************************************************************************)
\* Alphabets of prefix-marked phonemes, as the phonemizer backend emits them
\* (with_stress=True): each is a set of phonemes a run draws from.
Alphabets ==
    { \* voiceless stops (peers), front vowels (peers), primary stress
      { <<"p">>, <<"t">>, <<"<'>", "<ae>">>, <<"<'>", "<I>">> },
      \* one vowel at the three stress levels, and a nasal
      { <<"m">>, <<"<ae>">>, <<"<,>", "<ae>">>, <<"<'>", "<ae>">> },
      \* central vowels (peers) without primary stress, a stop, a stressed vowel
      { <<"k">>, <<"<@>">>, <<"<,>", "<V>">>, <<"<'>", "<I>">> } }

\* the sequences over S of length at most n
RECURSIVE SeqsUpTo(_, _)
SeqsUpTo(S, n) ==
    IF n = 0 THEN {<<>>}
    ELSE LET shorter == SeqsUpTo(S, n - 1)
         IN  shorter \cup {Append(s, x) : s \in {t \in shorter : Len(t) = n - 1}, x \in S}

(***************************************************************************)
(* Inputs of are_peer_phonemes                                             *)
(***************************************************************************)
\* symbols the peer table does not know: a letter, two positional symbols
UnknownSymbols == { <<"x">>, <<"P">>, <<"A", "E">> }

\* every key of the table, every symbol it lists, and the unknown ones
PeerSymbols ==
    DOMAIN phone_to_peers
    \cup UNION {phone_to_peers[a] : a \in DOMAIN phone_to_peers}
    \cup UnknownSymbols

\* the value of dist before the call returns
NotComputed == "not computed"

\* the session's variables before main() runs
MainIdle ==
    /\ pron_cache = <<>>
    /\ backend_calls = <<>>
    /\ word_pron = NoPron
    /\ idioms = <<>>
    /\ results = <<>>
    /\ seen_puns = {}
    /\ entry_idx = 1
    /\ returned = <<>>
    /\ raised = FALSE

InitDist ==
    /\ pc = "dist_call"
    /\ \E A \in Alphabets :
          /\ pron1 \in SeqsUpTo(A, MaxLen)
          /\ pron2 \in SeqsUpTo(A, MaxLen)
    /\ dist = NotComputed
    /\ args_word = <<>>
    /\ args_max_distance = 0
    /\ idioms_file = <<>>
    /\ concept_entries = <<>>
    /\ word_to_count = <<>>
    /\ MainIdle

\* one call phoneme_edit_distance(pron1, pron2)
PhonemeEditDistance ==
    /\ pc = "dist_call"
    /\ dist' = phoneme_edit_distance(pron1, pron2)
    /\ pc' = "dist_done"
    /\ UNCHANGED <<pron1, pron2, input_vars, main_vars>>

NextDist == PhonemeEditDistance

SpecDist == InitDist /\ [][NextDist]_vars

\* Alphabets of suffix-marked phonemes, as test_pun_generator.py writes them:
\* the stress is a trailing digit on the vowel symbol (1 is primary).
PositionalAlphabets ==
    { \* one vowel without stress and with secondary stress, two stops
      { <<"K">>, <<"T">>, <<"A", "E", "0">>, <<"A", "E", "2">> },
      \* two vowels with primary stress, two stops
      { <<"K">>, <<"T">>, <<"A", "E", "1">>, <<"A", "H", "1">> },
      \* the voiceless stops and a vowel with primary stress
      { <<"P">>, <<"T">>, <<"K">>, <<"A", "E", "1">> } }

InitPositional ==
    /\ pc = "dist_call"
    /\ \E A \in PositionalAlphabets :
          /\ pron1 \in SeqsUpTo(A, MaxLen)
          /\ pron2 \in SeqsUpTo(A, MaxLen)
    /\ dist = NotComputed
    /\ args_word = <<>>
    /\ args_max_distance = 0
    /\ idioms_file = <<>>
    /\ concept_entries = <<>>
    /\ word_to_count = <<>>
    /\ MainIdle

SpecPositional == InitPositional /\ [][NextDist]_vars

\* Alphabets of prefix-marked phonemes whose vowels are written with one or
\* with two characters, as the backend writes diphthongs (the keys of
\* phone_to_peers at lines 128-131).
StressAlphabets ==
    { \* two diphthongs with the same first character, a stop
      { <<"t">>, <<"a", "<I>">>, <<"<'>", "a", "<I>">>, <<"<'>", "a", "<U>">> },
      \* vowels of one character at two stress levels, a nasal
      { <<"n">>, <<"<,>", "<ae>">>, <<"<'>", "<ae>">>, <<"<'>", "<I>">> } }

InitStress ==
    /\ pc = "dist_call"
    /\ \E A \in StressAlphabets :
          /\ pron1 \in SeqsUpTo(A, MaxLen)
          /\ pron2 \in SeqsUpTo(A, MaxLen)
    /\ dist = NotComputed
    /\ args_word = <<>>
    /\ args_max_distance = 0
    /\ idioms_file = <<>>
    /\ concept_entries = <<>>
    /\ word_to_count = <<>>
    /\ MainIdle

SpecStress == InitStress /\ [][NextDist]_vars

\* two pronunciations of one phoneme each, the phonemes drawn from PeerSymbols:
\* the call compares them with are_peer_phonemes unless they are equal
InitPeers ==
    /\ pc = "dist_call"
    /\ pron1 \in {<<a>> : a \in PeerSymbols}
    /\ pron2 \in {<<b>> : b \in PeerSymbols}
    /\ dist = NotComputed
    /\ args_word = <<>>
    /\ args_max_distance = 0
    /\ idioms_file = <<>>
    /\ concept_entries = <<>>
    /\ word_to_count = <<>>
    /\ MainIdle

SpecPeers == InitPeers /\ [][NextDist]_vars

(***************************************************************************)
(* Inputs of a session                                                     *)
(***************************************************************************)
Words ==
    { <<"s", "u", "n">>,
      <<"S", "u", "n">>,
      <<"p", "u", "n">>,
      <<"h", "o", "w">>,
      <<"h", "o", "t", " ", "d", "o", "g">> }

\* --max-distance is parsed with type=int: 0, 1 and 2, in half-units
MaxDistances == {0, 2, 4}

\* lines of the idioms file: "Fun run un high" and "the son, fund sin shh "
FunRunLine ==
    <<"F", "u", "n", " ", "r", "u", "n", " ", "u", "n", " ", "h", "i", "g", "h">>
SonFundLine ==
    <<"t", "h", "e", " ", "s", "o", "n", ",", " ", "f", "u", "n", "d", " ",
      "s", "i", "n", " ", "s", "h", "h", " ">>
IdiomLines == {FunRunLine, SonFundLine}

\* ConceptNetEntry(relation, start, end, weight): only relation and end are read
RelatedEntries ==
    { [relation |-> <<"Antonym">>, end |-> <<"b", "u", "n">>],
      [relation |-> <<"Synonym">>, end |-> <<"b", "u", "n">>],
      [relation |-> <<"Synonym">>, end |-> <<"f", "u", "n">>],
      [relation |-> <<"IsA">>, end |-> <<"r", "u", "n">>] }

FrequencyTables ==
    { (<<"s", "u", "n">> :> 3) @@ (<<"b", "u", "n">> :> 3) @@
      (<<"f", "u", "n">> :> 3) @@ (<<"r", "u", "n">> :> 1),
      (<<"s", "u", "n">> :> 1) @@ (<<"b", "u", "n">> :> 4) @@
      (<<"r", "u", "n">> :> 2) }

Init ==
    /\ pc = "main"
    /\ args_word \in Words
    /\ args_max_distance \in MaxDistances
    /\ idioms_file \in SeqsUpTo(IdiomLines, MaxIdioms)
    /\ concept_entries \in SeqsUpTo(RelatedEntries, MaxEntries)
    /\ word_to_count \in FrequencyTables
    /\ pron1 = <<>>
    /\ pron2 = <<>>
    /\ dist = NotComputed
    /\ MainIdle

lookup_state == [cache |-> pron_cache, calls |-> backend_calls]

\* main, lines 457-464: no idioms were loaded, main returns
NoIdioms ==
    /\ pc = "main"
    /\ LET got == get_pronunciation(lookup_state, args_word)
       IN  /\ load_idioms(idioms_file) = <<>>
           /\ word_pron' = got.pron
           /\ pron_cache' = got.st.cache
           /\ backend_calls' = got.st.calls
           /\ raised' = got.raised
    /\ idioms' = <<>>
    /\ pc' = "done"
    /\ UNCHANGED <<dist_vars, input_vars, results, seen_puns, entry_idx, returned>>

\* main, lines 457-476: the search with the original word
SearchOriginal ==
    /\ pc = "main"
    /\ load_idioms(idioms_file) # <<>>
    /\ \E got \in {get_pronunciation(lookup_state, args_word)} :
       \E found \in {find_idiom_puns(got.st, args_word,
                                     load_idioms(idioms_file),
                                     args_max_distance, None, None)} :
          /\ word_pron' = got.pron
          /\ idioms' = load_idioms(idioms_file)
          /\ results' = found.ret
          /\ returned' = found.ret
          /\ raised' = found.raised
          /\ seen_puns' = {found.ret[k].punned_idiom : k \in DOMAIN found.ret}
          /\ pron_cache' = found.st.cache
          /\ backend_calls' = found.st.calls
    /\ entry_idx' = 1
    /\ pc' = "expand"
    /\ UNCHANGED <<dist_vars, input_vars>>

\* faulty variant of skipped_early: the relation of the entry is not looked at
skipped_early_any_relation(entry) ==
    \/ lower(entry.end) \notin DOMAIN word_to_count
    \/ has_space(entry.end)

\* main, lines 477-486: the entry is skipped before any lookup
skipped_early(entry) ==
    \/ entry.relation \in SKIP_RELATIONS
    \/ lower(entry.end) \notin DOMAIN word_to_count
    \/ has_space(entry.end)

\* main, line 489
same_pronunciation(related_pron) ==
    related_pron # NoPron /\ word_pron # NoPron /\ related_pron = word_pron

\* main, lines 477-490: one pass of the loop that ends in a continue
SkipEntry ==
    /\ pc = "expand"
    /\ entry_idx <= Len(concept_entries)
    /\ LET entry == concept_entries[entry_idx]
           got == get_pronunciation(lookup_state, entry.end)
       IN  \/ /\ skipped_early(entry)
              /\ UNCHANGED <<pron_cache, backend_calls, raised>>
           \/ /\ ~skipped_early(entry)
              /\ same_pronunciation(got.pron)
              /\ pron_cache' = got.st.cache
              /\ backend_calls' = got.st.calls
              /\ raised' = got.raised
    /\ entry_idx' = entry_idx + 1
    /\ UNCHANGED <<pc, dist_vars, input_vars, word_pron, idioms, results,
                   seen_puns, returned>>

\* main, lines 477-502: one pass of the loop that searches with the related word
SearchRelated ==
    /\ pc = "expand"
    /\ entry_idx <= Len(concept_entries)
    /\ ~skipped_early(concept_entries[entry_idx])
    /\ \E entry \in {concept_entries[entry_idx]} :
       \E got \in {get_pronunciation(lookup_state, entry.end)} :
          /\ ~same_pronunciation(got.pron)
          /\ \E found \in {find_idiom_puns(got.st, entry.end, idioms,
                                           args_max_distance, args_word,
                                           entry.relation)} :
             \E merged \in {merge_related([results |-> results,
                                           seen_puns |-> seen_puns], found.ret)} :
                /\ returned' = found.ret
                /\ raised' = found.raised
                /\ results' = merged.results
                /\ seen_puns' = merged.seen_puns
                /\ pron_cache' = found.st.cache
                /\ backend_calls' = found.st.calls
    /\ entry_idx' = entry_idx + 1
    /\ UNCHANGED <<pc, dist_vars, input_vars, word_pron, idioms>>

\* main, lines 504-511: the final sort, once the loop is over
SortResults ==
    /\ pc = "expand"
    /\ entry_idx > Len(concept_entries)
    /\ results' = sort_results(results)
    /\ pc' = "done"
    /\ UNCHANGED <<dist_vars, input_vars, pron_cache, backend_calls, word_pron,
                   idioms, seen_puns, entry_idx, returned, raised>>

Next == NoIdioms \/ SearchOriginal \/ SkipEntry \/ SearchRelated \/ SortResults

Spec == Init /\ [][Next]_vars

(***************************************************************************)
(* Properties of find_idiom_puns and of the session                        *)
(***************************************************************************)
no_repeated_phrase(rs) ==
    \A i, j \in DOMAIN rs : i # j => rs[i].punned_idiom # rs[j].punned_idiom

\* the frequency of the word a result substituted in, unknown counting as 0
frequency_of(r) == get_word_frequency(r.sub_in)

same_key(a, b) == a.distance = b.distance /\ frequency_of(a) = frequency_of(b)

position(rs, r) == CHOOSE k \in DOMAIN rs : rs[k] = r

\* C1: every result a find_idiom_puns call returns has a distance d with
\* 0 < d <= max_distance.
C1_DistanceWithinBudget ==
    \A k \in DOMAIN returned :
        0 < returned[k].distance /\ returned[k].distance <= args_max_distance

\* A call that met a homophone (distance 0) and a word beyond the budget, and
\* returned a result exactly at the budget.
C1_Witness ==
    /\ pc = "expand"
    /\ args_max_distance = 2
    /\ SonFundLine \in Range(idioms_file)
    /\ \E k \in DOMAIN returned : returned[k].distance = args_max_distance
    /\ \E k \in DOMAIN returned : returned[k].distance < args_max_distance

\* C2: one call of find_idiom_puns never returns two results with the same
\* substituted-phrase text.
C2_NoRepeatedPhraseInCall == no_repeated_phrase(returned)

\* A call over a list that holds the same idiom twice, with results.
C2_Witness ==
    /\ pc = "expand"
    /\ Len(idioms) >= 2
    /\ idioms[1] = idioms[2]
    /\ returned # <<>>

\* C3: across the session the merged list never holds two results with the
\* same substituted-phrase text; seen_puns holds exactly the phrases merged.
C3_NoRepeatedPhraseInSession ==
    /\ no_repeated_phrase(results)
    /\ pc = "expand" => seen_puns = punned_of(results)

\* An expansion search returned a phrase the session already held, and the
\* merge dropped it.
C3_Witness ==
    /\ pc = "expand"
    /\ \E k \in DOMAIN returned :
          /\ returned[k].punned_idiom \in punned_of(results)
          /\ returned[k] \notin Range(results)

\* C4: in the final list a smaller distance comes first whatever the
\* frequencies are, and at equal distance the higher frequency of the
\* substituted-in word comes first.
C4_RankedByDistanceThenFrequency ==
    pc = "done" =>
        \A i, j \in DOMAIN results :
            i < j =>
                /\ results[i].distance <= results[j].distance
                /\ results[i].distance = results[j].distance
                      => frequency_of(results[i]) >= frequency_of(results[j])

\* A final list where a closer, rarer word precedes a farther, more frequent
\* one, and where an expansion result precedes a result of the original word
\* at equal distance because its word is more frequent.
C4_Witness ==
    /\ pc = "done"
    /\ \E i, j \in DOMAIN results :
          /\ i < j
          /\ results[i].distance < results[j].distance
          /\ frequency_of(results[i]) < frequency_of(results[j])
    /\ \E i, j \in DOMAIN results :
          /\ i < j
          /\ results[i].distance = results[j].distance
          /\ frequency_of(results[i]) > frequency_of(results[j])
          /\ results[i].source_word # None
          /\ results[j].source_word = None

\* C5: results with equal sort keys keep their encounter order: the search
\* with the original word yields results without provenance, every expansion
\* appends its new results behind the list, tagged with the entry the loop
\* is at, and the final sort keeps the relative order of results whose
\* distance and frequency are equal.
C5_EncounterOrderStep ==
    /\ (pc = "main" /\ pc' = "expand") =>
           \A k \in DOMAIN results' : results'[k].source_word = None
    /\ (pc = "expand" /\ pc' = "expand") =>
           /\ Len(results') >= Len(results)
           /\ SubSeq(results', 1, Len(results)) = results
           /\ \A k \in (Len(results) + 1)..Len(results') :
                 /\ results'[k].source_word = args_word
                 /\ results'[k].relation = concept_entries[entry_idx].relation
                 /\ results'[k].sub_in = concept_entries[entry_idx].end
    /\ (pc = "expand" /\ pc' = "done") =>
           /\ Len(results') = Len(results)
           /\ Range(results') = Range(results)
           /\ \A i, j \in DOMAIN results :
                 (i < j /\ same_key(results[i], results[j]))
                     => position(results', results[i]) < position(results', results[j])
C5_EncounterOrderKept == [][C5_EncounterOrderStep]_vars

\* A final list where a result of the original word precedes an expansion
\* result of equal key, and where results of two different entries with
\* equal keys follow each other.
C5_Witness ==
    /\ pc = "done"
    /\ \E i, j \in DOMAIN results :
          /\ i < j
          /\ same_key(results[i], results[j])
          /\ results[i].source_word = None
          /\ results[j].source_word # None
    /\ \E i, j \in DOMAIN results :
          /\ i < j
          /\ same_key(results[i], results[j])
          /\ results[i].source_word # None
          /\ results[j].source_word # None
          /\ results[i].sub_in # results[j].sub_in

(***************************************************************************)
(* Properties of phoneme_edit_distance                                     *)
(***************************************************************************)
\* the positions where two pronunciations of one length differ
differ_at(p, q) == {k \in DOMAIN p : p[k] # q[k]}

\* p and q are equal except at one position
one_difference(p, q) == Len(p) = Len(q) /\ Cardinality(differ_at(p, q)) = 1

the_difference(p, q) == CHOOSE k \in differ_at(p, q) : TRUE

\* q is p with the phoneme at one position removed
removed_one(p, q) ==
    /\ Len(p) = Len(q) + 1
    /\ \E k \in DOMAIN p : q = SubSeq(p, 1, k - 1) \o SubSeq(p, k + 1, Len(p))

has_primary(p) == \E k \in DOMAIN p : is_stressed_vowel(p[k])

\* C6: phoneme_edit_distance(P1, P2) = phoneme_edit_distance(P2, P1).
C6_Symmetric ==
    pc = "dist_done" => dist = phoneme_edit_distance(pron2, pron1)

\* Two pronunciations of different lengths, only the first with a
\* primary-stressed vowel, at a distance above 1.0.
C6_Witness ==
    /\ pc = "dist_done"
    /\ Len(pron1) < Len(pron2)
    /\ has_primary(pron1)
    /\ ~has_primary(pron2)
    /\ dist > 2

\* C7: two pronunciations of one length with the same base at every position
\* are at distance 0, whatever their stress markers are.
C7_SameBasesAtDistanceZero ==
    (/\ pc = "dist_done"
     /\ Len(pron1) = Len(pron2)
     /\ \A k \in DOMAIN pron1 : strip_stress(pron1[k]) = strip_stress(pron2[k]))
        => dist = 0

\* The same vowel with primary stress against no marker at one position and
\* with secondary stress against no marker at another.
C7_Witness ==
    /\ pc = "dist_done"
    /\ Len(pron1) = Len(pron2)
    /\ \A k \in DOMAIN pron1 : strip_stress(pron1[k]) = strip_stress(pron2[k])
    /\ \E k \in DOMAIN pron1 : Head(pron1[k]) = "<'>" /\ Head(pron2[k]) \notin STRESS_MARKERS
    /\ \E k \in DOMAIN pron1 : Head(pron1[k]) = "<,>" /\ Head(pron2[k]) \notin STRESS_MARKERS
    /\ dist = 0

\* C8: one differing position, bases different, at least one side a
\* primary-stressed vowel: the distance is 2.0; and the sentinel never shows
\* in a returned distance.
C8_StressedVowelCostsTwo ==
    pc = "dist_done" =>
        /\ dist < INF
        /\ one_difference(pron1, pron2) =>
              LET k == the_difference(pron1, pron2)
              IN  (/\ strip_stress(pron1[k]) # strip_stress(pron2[k])
                   /\ is_stressed_vowel(pron1[k]) \/ is_stressed_vowel(pron2[k]))
                      => dist = 4

\* Two peer vowels, both with primary stress, between the same neighbours.
C8_Witness ==
    /\ pc = "dist_done"
    /\ Len(pron1) = 3
    /\ one_difference(pron1, pron2)
    /\ differ_at(pron1, pron2) = {2}
    /\ is_stressed_vowel(pron1[2]) /\ is_stressed_vowel(pron2[2])
    /\ strip_stress(pron2[2]) \in peers_of(strip_stress(pron1[2]))
    /\ dist = 4

\* C9: one differing position, bases different, neither side primary-stressed:
\* 0.5 when the bases are peers in the table, 1.0 when they are not.
C9_UnstressedSubstitution ==
    (pc = "dist_done" /\ one_difference(pron1, pron2)) =>
        LET k == the_difference(pron1, pron2)
            b1 == strip_stress(pron1[k])
            b2 == strip_stress(pron2[k])
        IN  (b1 # b2 /\ ~is_stressed_vowel(pron1[k]) /\ ~is_stressed_vowel(pron2[k]))
                => dist = (IF b2 \in peers_of(b1) THEN 1 ELSE 2)

\* Two peer consonants in front of the same primary-stressed vowel.
C9_Witness ==
    /\ pc = "dist_done"
    /\ Len(pron1) = 3
    /\ one_difference(pron1, pron2)
    /\ differ_at(pron1, pron2) = {1}
    /\ strip_stress(pron2[1]) \in peers_of(strip_stress(pron1[1]))
    /\ is_stressed_vowel(pron1[2])
    /\ dist = 1

\* C10: if one pronunciation is the other with one phoneme removed, the
\* distance is 1.0.
C10_SingleRemovalCostsOne ==
    (pc = "dist_done" /\ (removed_one(pron1, pron2) \/ removed_one(pron2, pron1)))
        => dist = 2

\* The removed phoneme is the only primary-stressed vowel of a pronunciation of
\* three phonemes.
C10_Witness ==
    /\ pc = "dist_done"
    /\ Len(pron1) = 3
    /\ removed_one(pron1, pron2)
    /\ has_primary(pron1)
    /\ ~has_primary(pron2)
    /\ dist = 2

(***************************************************************************)
(* The positional-suffix alphabet                                          *)
(***************************************************************************)
STRESS_DIGITS == {"0", "1", "2"}

\* the symbol without its trailing stress digit
positional_base(ph) ==
    IF ph # <<>> /\ ph[Len(ph)] \in STRESS_DIGITS
    THEN SubSeq(ph, 1, Len(ph) - 1) ELSE ph

\* the trailing digit is 1
positional_primary(ph) == ph # <<>> /\ ph[Len(ph)] = "1"

\* the base of the first phoneme with primary stress, or None
positional_stressed_vowel(pron) ==
    LET hits == {k \in DOMAIN pron : positional_primary(pron[k])}
    IN  IF hits = {} THEN None
        ELSE positional_base(pron[CHOOSE k \in hits : \A h \in hits : k <= h])

POSITIONAL_STOPS == {<<"P">>, <<"T">>, <<"K">>}

\* C11: on suffix-marked pronunciations the engine strips the trailing digit
\* to form the base and reads digit 1 as primary stress: equal bases are at
\* distance 0, one differing position with a primary-stressed side costs 2.0,
\* get_stressed_vowel answers the base of the first primary-stressed phoneme,
\* and P, T and K are peers.
C11_PositionalAlphabet ==
    pc = "dist_done" =>
        /\ (/\ Len(pron1) = Len(pron2)
            /\ \A k \in DOMAIN pron1 :
                  positional_base(pron1[k]) = positional_base(pron2[k]))
              => dist = 0
        /\ one_difference(pron1, pron2) =>
              LET k == the_difference(pron1, pron2)
              IN  (/\ positional_base(pron1[k]) # positional_base(pron2[k])
                   /\ positional_primary(pron1[k]) \/ positional_primary(pron2[k]))
                      => dist = 4
        /\ get_stressed_vowel(pron1) = positional_stressed_vowel(pron1)
        /\ \A i \in DOMAIN pron1, j \in DOMAIN pron2 :
              (pron1[i] \in POSITIONAL_STOPS /\ pron2[j] \in POSITIONAL_STOPS)
                  => are_peer_phonemes(pron1[i], pron2[j])

(***************************************************************************)
(* Failures                                                                *)
(***************************************************************************)
\* the search with the original word has just returned
original_searched == pc = "expand" /\ entry_idx = 1

\* C12: when the input word has no pronunciation, find_idiom_puns returns an
\* empty list and raises no exception, whatever the idioms are.
C12_NoPronunciationNoResults ==
    (original_searched /\ word_pron = NoPron) => (returned = <<>> /\ ~raised)

\* A phrase the backend has no answer for, searched in idioms that hold a
\* word without a vowel, one insertion away from the empty pronunciation.
C12_Witness ==
    /\ original_searched
    /\ has_space(args_word)
    /\ word_pron = NoPron
    /\ SonFundLine \in Range(idioms_file)
    /\ args_max_distance >= 2
    /\ returned = <<>>
    /\ ~raised

\* C13: a search call with a max_distance that is not positive is rejected
\* with an error instead of returning a list.
C13_InvalidBoundsRejected ==
    (original_searched /\ args_max_distance <= 0) => raised

\* C14: when the backend raises for the input word, the failure reaches the
\* caller as an error; it is not turned into an absent pronunciation.
C14_ProviderFailurePropagated ==
    (pc # "main" /\ pc # "dist_call" /\ pc # "dist_done"
     /\ lower(args_word) \in ESPEAK_RAISES) => (raised /\ word_pron # NoPron)

(***************************************************************************)
(* The pronunciation cache                                                 *)
(***************************************************************************)
\* what the backend answers for a lower-cased word when it is asked first:
\* its phonemes, or nothing when it has none or raises
first_outcome(w) ==
    IF w \in DOMAIN ESPEAK /\ w \notin ESPEAK_RAISES THEN ESPEAK[w] ELSE NoPron

\* C15: in a session the backend runs at most once per lower-cased word,
\* whether it answered, had no answer or raised; a later call for the word,
\* in any letter case, returns the outcome of the first call and leaves the
\* backend alone.
C15_BackendOncePerWord ==
    /\ \A w \in DOMAIN backend_calls : w = lower(w) /\ backend_calls[w] <= 1
    /\ pc \in {"expand", "done"} => lower(args_word) \in DOMAIN backend_calls
    /\ \A w \in DOMAIN pron_cache :
          /\ pron_cache[w] = first_outcome(w)
          /\ \A again \in {get_pronunciation(lookup_state, w),
                           get_pronunciation(lookup_state, upper(w))} :
                again.pron = pron_cache[w] /\ again.st = lookup_state

\* A session for "Sun" whose two related entries are the same word: the word
\* and the related word were each looked up several times, the backend ran
\* once for each.
C15_Witness ==
    /\ pc = "done"
    /\ args_word = <<"S", "u", "n">>
    /\ Len(concept_entries) = 2
    /\ \A k \in DOMAIN concept_entries :
          /\ concept_entries[k].end = <<"b", "u", "n">>
          /\ ~skipped_early(concept_entries[k])
    /\ idioms # <<>>
    /\ backend_calls[<<"s", "u", "n">>] = 1
    /\ backend_calls[<<"b", "u", "n">>] = 1

(***************************************************************************)
(* The peer table                                                          *)
(***************************************************************************)
\* C16: the peer table is symmetric, and so is are_peer_phonemes, for known
\* and unknown symbols: a symbol listed as a peer of A lists A as a peer, and
\* the substitution of one symbol by another costs 0.5 exactly when the
\* second is a peer of the first and when the first is a peer of the second.
C16_PeersSymmetric ==
    pc = "dist_done" =>
        LET a == pron1[1]
            b == pron2[1]
        IN  /\ b \in peers_of(a) => a \in peers_of(b)
            /\ are_peer_phonemes(a, b) = are_peer_phonemes(b, a)
            /\ (dist = 1) = (a # b /\ are_peer_phonemes(b, a))
            /\ (dist = 1) = (a # b /\ are_peer_phonemes(a, b))

\* The rhotic central vowel against a symbol that lists it as a peer.
C16_Witness ==
    /\ pc = "dist_done"
    /\ pron1 = << <<"<@r>">> >>
    /\ pron1[1] \in peers_of(pron2[1])
    /\ pron2[1] \in peers_of(pron1[1])
    /\ dist = 1

(***************************************************************************)
(* The stressed vowel                                                      *)
(***************************************************************************)
\* the phoneme carries the primary stress marker
primary_stressed(ph) == ph # <<>> /\ Head(ph) = "<'>"

has_primary_stressed(pron) == \E k \in DOMAIN pron : primary_stressed(pron[k])

\* the whole symbol, stress marker stripped, of the first phoneme with
\* primary stress, or None
first_primary_base(pron) ==
    LET hits == {k \in DOMAIN pron : primary_stressed(pron[k])}
    IN  IF hits = {} THEN None
        ELSE strip_stress(pron[CHOOSE k \in hits : \A h \in hits : k <= h])

\* C17: get_stressed_vowel answers the base, the whole symbol without its
\* stress marker, of the first primary-stressed phoneme, and None when there
\* is none; pronunciations whose first primary-stressed phonemes differ in
\* their bases get different stressed vowels.
C17_StressedVowelIsBase ==
    pc = "dist_done" =>
        /\ get_stressed_vowel(pron1) = first_primary_base(pron1)
        /\ (/\ has_primary_stressed(pron1)
            /\ has_primary_stressed(pron2)
            /\ first_primary_base(pron1) # first_primary_base(pron2))
              => get_stressed_vowel(pron1) # get_stressed_vowel(pron2)

(***************************************************************************)
(* The sites of a search                                                   *)
(***************************************************************************)
\* C18: in every result find_idiom_puns returns, the matched word is not
\* empty, differs from the input word whatever the letter case, is not a
\* stop-word and has at least MIN_WORD_LENGTH characters.
C18_MatchedWordAdmissible ==
    \A k \in DOMAIN returned :
        LET r == returned[k]
        IN  /\ r.matched_word # <<>>
            /\ lower(r.matched_word) # lower(r.sub_in)
            /\ r.matched_word \notin STOPWORDS
            /\ Len(r.matched_word) >= MIN_WORD_LENGTH

\* A search with a related word over idioms that hold the word itself, a
\* stop-word and a word of two characters that sounds close; it found puns.
C18_Witness ==
    /\ pc = "expand"
    /\ returned # <<>>
    /\ returned[1].sub_in = <<"f", "u", "n">>
    /\ FunRunLine \in Range(idioms_file)
    /\ SonFundLine \in Range(idioms_file)
    /\ args_max_distance >= 2

(***************************************************************************)
(* Where a result comes from                                               *)
(***************************************************************************)
\* the result was found by the search with the literal input word
from_literal_search(r) == r.sub_in = args_word

\* the result was found by the search with the end word of an entry the loop
\* has passed
from_expansion(r) ==
    \E k \in 1..(entry_idx - 1) :
        /\ k <= Len(concept_entries)
        /\ concept_entries[k].end = r.sub_in
        /\ concept_entries[k].relation = r.relation

\* C19: in the merged list source_word and relation are both None exactly for
\* the results of the literal search, and are the input word and the entry's
\* relation exactly for the results of an expansion search; no result has one
\* of the two alone, and no relation of a result is in SKIP_RELATIONS.
C19_ProvenanceOfResults ==
    \A k \in DOMAIN results :
        LET r == results[k]
        IN  /\ (r.source_word = None) = (r.relation = None)
            /\ (r.source_word = None) = from_literal_search(r)
            /\ (r.source_word # None) = from_expansion(r)
            /\ r.source_word # None => r.source_word = args_word
            /\ r.relation \notin SKIP_RELATIONS

\* A sorted list that holds a result of the literal search and a result of
\* an expansion search, after the loop passed an entry with a skipped relation.
C19_Witness ==
    /\ pc = "done"
    /\ \E k \in DOMAIN results : results[k].source_word = None
    /\ \E k \in DOMAIN results : results[k].relation = <<"Synonym">>
    /\ \E k \in DOMAIN concept_entries :
          concept_entries[k].relation \in SKIP_RELATIONS

(***************************************************************************)
(* The prosody of a returned site                                          *)
(***************************************************************************)
\* the phonemes of a pronunciation that hold a vowel
syllables(pron) ==
    Cardinality({k \in DOMAIN pron : has_vowel(strip_stress(pron[k]))})

\* C20: in every result find_idiom_puns returns, the pronunciation of the
\* matched word has as many syllables as the input word's and the same
\* stressed vowel, the base of the first primary-stressed phoneme, whatever
\* max_distance is.
C20_SameProsody ==
    \A k \in DOMAIN returned :
        LET word_p == first_outcome(lower(returned[k].sub_in))
            site_p == first_outcome(lower(returned[k].matched_word))
        IN  /\ syllables(site_p) = syllables(word_p)
            /\ first_primary_base(site_p) = first_primary_base(word_p)

(***************************************************************************)
(* The cheapest alignment                                                  *)
(***************************************************************************)
\* the cost of putting ph1 against ph2 in an alignment, in half-units
pair_cost(ph1, ph2) ==
    IF strip_stress(ph1) = strip_stress(ph2) THEN 0
    ELSE IF is_stressed_vowel(ph1) \/ is_stressed_vowel(ph2) THEN INF
    ELSE IF strip_stress(ph2) \in peers_of(strip_stress(ph1)) THEN 1
    ELSE 2

\* The cheapest alignment of the first i phonemes of p1 with each prefix of
\* p2, from the costs for the first i-1 phonemes (prev): every cell is the
\* minimum over a deletion, an insertion and a pairing, equal bases or not.
RECURSIVE cheapest_row(_, _, _, _, _)
cheapest_row(p1, p2, i, prev, cur) ==
    LET j == Len(cur)
    IN  IF j > Len(p2) THEN cur
        ELSE cheapest_row(p1, p2, i, prev,
                 Append(cur, Min3(prev[j + 1] + 2, cur[j] + 2,
                                  prev[j] + pair_cost(p1[i], p2[j]))))

RECURSIVE cheapest_rows(_, _, _, _)
cheapest_rows(p1, p2, i, prev) ==
    IF i > Len(p1) THEN prev
    ELSE cheapest_rows(p1, p2, i + 1, cheapest_row(p1, p2, i, prev, <<2 * i>>))

\* the minimum total cost over all alignments of p1 and p2
cheapest_alignment(p1, p2) ==
    cheapest_rows(p1, p2, 1, [j \in 1..(Len(p2) + 1) |-> 2 * (j - 1)])[Len(p2) + 1]

\* C21: phoneme_edit_distance returns the minimum total cost over all
\* alignments built from insertions, deletions and pairings; taking the
\* diagonal cell alone on equal bases never gives more than that minimum.
C21_MinimumOverAlignments ==
    pc = "dist_done" => dist = cheapest_alignment(pron1, pron2)

\* Two pronunciations of three phonemes, the second the first shifted by one:
\* equal bases meet off the main diagonal and the cheapest alignment is an
\* insertion, two pairings of equal bases and a deletion.
C21_Witness ==
    /\ pc = "dist_done"
    /\ Len(pron1) = 3
    /\ Len(pron2) = 3
    /\ strip_stress(pron1[1]) = strip_stress(pron2[2])
    /\ strip_stress(pron1[2]) = strip_stress(pron2[3])
    /\ strip_stress(pron1[1]) # strip_stress(pron2[1])
    /\ strip_stress(pron1[2]) # strip_stress(pron2[2])
    /\ dist = 4

(***************************************************************************)
(* The stressed-vowel check and the distance                               *)
(***************************************************************************)
\* the default max_distance, 1.0, in half-units
DEFAULT_MAX_DISTANCE == 2

\* the two checks of lines 358 and 362, for a pair of pronunciations: the
\* syllable counts agree and the stressed vowels do not
only_vowel_check_rejects(p, q) ==
    /\ count_syllables(p) = count_syllables(q)
    /\ get_stressed_vowel(p) # get_stressed_vowel(q)

\* the bases of the phonemes of a pronunciation
bases_of(pron) == {strip_stress(pron[k]) : k \in DOMAIN pron}

\* p has a primary-stressed vowel, and the base of the first one is the base
\* of no phoneme of q
stressed_base_absent(p, q) ==
    LET hits == {k \in DOMAIN p : is_stressed_vowel(p[k])}
    IN  /\ hits # {}
        /\ strip_stress(p[CHOOSE k \in hits : \A h \in hits : k <= h])
              \notin bases_of(q)

====
